---- MODULE Spec2Model ----
(***************************************************************************)
(* The diamond-branching story generator of the CYOA engine:               *)
(*   calculateDiamondShape       (packages/core/src/cyoa/state.ts)         *)
(*   CYOAOrchestrator.run and its private methods generateLevel,           *)
(*   calculateIncomingScenes, generateScene, connectDecisions and          *)
(*   validatePaths               (the orchestrator source)                 *)
(*                                                                         *)
(* A scene id "scene_L{level}_{index}" is the pair <<level, index>>, the   *)
(* empty string of an unconnected leads_to is the empty tuple <<>>.        *)
(* Arrays are sequences: the JavaScript index k is the TLA+ index k + 1.   *)
(*                                                                         *)
(* The two collaborators (the generation client and the editor) are the    *)
(* environment.  What they may answer is the record llm, fixed when a run  *)
(* starts: for each scene type, the lengths of the decisions array a       *)
(* generation call may return, the narratives it may return, the verdicts  *)
(* and the edited_content the editor may return.                           *)
(*                                                                         *)
(* processStoryJob (the worker source) runs the orchestrator for one job:  *)
(* it marks the job running, reports progress through updateJobProgress,   *)
(* saves the story the run returns and marks the job succeeded, or marks   *)
(* it failed when the run throws.                                          *)
(***************************************************************************)
EXTENDS Integers, Sequences, FiniteSets, Bags, TLC

VARIABLES
    diamond_config,         \* state.diamond_config
    mode,                   \* CYOAOrchestrator.mode
    llm,                    \* what the collaborators may answer (environment)
    pc,                     \* position of processStoryJob and run(): start, scene, generate,
                            \* evaluate, validate, done (run() has returned), saved, thrown,
                            \* blocked, failed
    diamondShape,           \* run(): const diamondShape (<<>> before it is computed)
    level,                  \* run(): loop variable level
    index,                  \* generateLevel(): loop variable i
    incoming,               \* generateLevel(): incomingSceneIds of the scene in work
    attempts,               \* generateScene(): attempts
    additionalConstraints,  \* generateScene(): additionalConstraints (its kind)
    draft,                  \* generateScene(): rawContent.narrative and decisions awaiting the editor
    scenes,                 \* state.scenes
    scenes_by_level,        \* state.scenes_by_level
    scenes_generated,       \* state.scenes_generated
    genCalls,               \* generation calls of the run, counted by a metered client
    criticCalls,            \* editor calls made so far for the scene in work
    trace,                  \* the calls generateScene made for its last scene, kept by a traced client
    job,                    \* the StoryJob row of the job
    db,                     \* the Story, Scene and Decision rows created for the job
    thrown,                 \* what threw, once an error leaves run()
    playthroughs,           \* the Playthrough rows, in the order of their creation
    timesChosen,            \* Decision.timesChosen of the decisions chosen at least once
    deciding,               \* the decide requests in work, a bag: what each has read
    now,                    \* the time the next new Date() of the decide route gives
    response                \* the response of the last play or decide request answered

(* the variables of the play routes *)
play == <<playthroughs, timesChosen, deciding, now, response>>

vars == <<diamond_config, mode, llm, pc, diamondShape, level, index, incoming,
          attempts, additionalConstraints, draft, scenes, scenes_by_level,
          scenes_generated, genCalls, criticCalls, trace, job, db, thrown,
          playthroughs, timesChosen, deciding, now, response>>

-----------------------------------------------------------------------------
(* Program constants *)

(* MAX_SCENE_REGENERATIONS set one higher *)
MAX_SCENE_REGENERATIONS_Four == 3 + 1

MAX_SCENE_REGENERATIONS == 3

MinLevels == 3
MaxLevels == 6
MinWidth == 2
MaxWidth == 6
MinMinEndings == 2
MaxMinEndings == 4
MinMaxEndings == 3
MaxMaxEndings == 8
MinDecisionsPerScene == 2
MaxDecisionsPerScene == 4

(* SceneSchema: decisions has at most 4 elements; DecisionSchema:
   choice_order is between 1 and 4 *)
MaxDecisions == 4
MinChoiceOrder == 1
MaxChoiceOrder == 4

(* Bound of the model: the longest decisions array a generation call returns
   in the specifications that let the length vary. *)
MaxChoices == 2

-----------------------------------------------------------------------------
(* Helpers *)

Range(s) == {s[k] : k \in 1..Len(s)}

Min(a, b) == IF a <= b THEN a ELSE b

Max(a, b) == IF a >= b THEN a ELSE b

(* Math.floor(a / b) and Math.ceil(a / b) for b > 0 *)
FloorDiv(a, b) == IF a >= 0 THEN a \div b ELSE -(((-a) + b - 1) \div b)

CeilDiv(a, b) == -FloorDiv(-a, b)

RECURSIVE SumSeq(_)
SumSeq(s) == IF s = <<>> THEN 0 ELSE Head(s) + SumSeq(Tail(s))

(* [...new Set(xs)]: first occurrences, in order *)
RECURSIVE Dedup(_)
Dedup(s) ==
    IF s = <<>> THEN <<>>
    ELSE LET init == Dedup(SubSeq(s, 1, Len(s) - 1))
             last == s[Len(s)]
         IN  IF last \in Range(init) THEN init ELSE Append(init, last)

-----------------------------------------------------------------------------
(* state.ts *)

DiamondConfigSchema ==
    [max_levels : MinLevels..MaxLevels,
     max_width : MinWidth..MaxWidth,
     min_endings : MinMinEndings..MaxMinEndings,
     max_endings : MinMaxEndings..MaxMaxEndings,
     decisions_per_scene : MinDecisionsPerScene..MaxDecisionsPerScene]

STORY_PRESETS ==
    [quick |-> [max_levels |-> 4, max_width |-> 4, min_endings |-> 2,
                max_endings |-> 3, decisions_per_scene |-> 2],
     standard |-> [max_levels |-> 5, max_width |-> 5, min_endings |-> 3,
                   max_endings |-> 5, decisions_per_scene |-> 3],
     epic |-> [max_levels |-> 6, max_width |-> 6, min_endings |-> 4,
               max_endings |-> 7, decisions_per_scene |-> 3]]

(* ShapeAt that never takes the final-level branch: the last level gets the
   contracting formula *)
ShapeAt_NoFinalLevel(config, lvl) ==
    LET levels == config.max_levels
        midpoint == levels \div 2
    IN  IF lvl = 0 THEN 1
        ELSE IF lvl <= midpoint
        THEN Min(1 + CeilDiv((config.max_width - 1) * lvl, midpoint), config.max_width)
        ELSE LET remaining == levels - 1 - lvl
                 span == levels - 1 - midpoint
             IN  IF span = 0 THEN 0 - 1
                 ELSE config.min_endings
                        + CeilDiv((config.max_width - config.min_endings) * remaining, span)

(* The width of one level.  The source computes in doubles:
     Math.ceil(1 + (max_width - 1) * (level / midpoint)),
     Math.ceil((min_endings + max_endings) / 2),
     Math.ceil(min_endings + (max_width - min_endings) * (remaining / span));
   for every config of DiamondConfigSchema the doubles give the integers
   below.  A span of 0 makes the double division yield NaN or Infinity; the
   model then yields 0 - 1, a width no level can have. *)
ShapeAt(config, lvl) ==
    LET levels == config.max_levels
        midpoint == levels \div 2
    IN  IF lvl = 0 THEN 1
        ELSE IF lvl <= midpoint
        THEN Min(1 + CeilDiv((config.max_width - 1) * lvl, midpoint), config.max_width)
        ELSE IF lvl = levels - 1
        THEN CeilDiv(config.min_endings + config.max_endings, 2)
        ELSE LET remaining == levels - 1 - lvl
                 span == levels - 1 - midpoint
             IN  IF span = 0 THEN 0 - 1
                 ELSE config.min_endings
                        + CeilDiv((config.max_width - config.min_endings) * remaining, span)

(* calculateDiamondShape whose loop stops one level early *)
calculateDiamondShape_Short(config) ==
    [l \in 1..(config.max_levels - 1) |-> ShapeAt(config, l - 1)]

calculateDiamondShape(config) ==
    [l \in 1..config.max_levels |-> ShapeAt(config, l - 1)]

generateCYOASceneId(lvl, i) == <<lvl, i>>

-----------------------------------------------------------------------------
(* The orchestrator: pure parts *)

SceneTypes == {"intro", "branch", "ending"}

Verdicts == {"ACCEPT", "REWRITE", "REGENERATE"}

(* calculateIncomingScenes.  rnd is the outcome of Math.random() > 0.5, which
   the source draws only when index > 0.  The source computes
     Math.floor(index * (prevCount / scenesAtThisLevel)),
     Math.floor(index / (scenesAtThisLevel / prevCount)) and
     Math.floor((index + 1) / (scenesAtThisLevel / prevCount)) in doubles;
   for every pair of adjacent widths of every valid shape the doubles give
   the integer quotients used here. *)
(* calculateIncomingScenes that pushes the secondary connection without
   looking whether it is there already, and returns the array as it is *)
calculateIncomingScenes_NoDedup(lvl, idx, scenesAtThisLevel, previousLevelSceneIds, config, rnd) ==
    IF lvl = 0 THEN <<>>
    ELSE IF Len(previousLevelSceneIds) = 0 THEN <<>>
    ELSE
    LET prevCount == Len(previousLevelSceneIds)
        midpoint == config.max_levels \div 2
        isExpanding == lvl <= midpoint
    IN  IF isExpanding
        THEN LET primaryPrev == FloorDiv(idx * prevCount, scenesAtThisLevel)
                 first == <<previousLevelSceneIds[Min(primaryPrev, prevCount - 1) + 1]>>
                 secondary == Max(0, primaryPrev - 1)
             IN  IF idx > 0 /\ rnd
                 THEN Append(first, previousLevelSceneIds[secondary + 1])
                 ELSE first
        ELSE LET startPrev == FloorDiv(idx * prevCount, scenesAtThisLevel)
                 endPrev == Min(prevCount - 1,
                                FloorDiv((idx + 1) * prevCount, scenesAtThisLevel))
                 span == [k \in 1..Max(0, endPrev - startPrev + 1) |->
                             previousLevelSceneIds[startPrev + k]]
             IN  IF Len(span) = 0 THEN <<previousLevelSceneIds[1]>> ELSE span

(* calculateIncomingScenes whose secondary connection is the scene after the
   primary one, and whose contracting range ends one scene early *)
calculateIncomingScenes_Shifted(lvl, idx, scenesAtThisLevel, previousLevelSceneIds, config, rnd) ==
    IF lvl = 0 THEN <<>>
    ELSE IF Len(previousLevelSceneIds) = 0 THEN <<>>
    ELSE
    LET prevCount == Len(previousLevelSceneIds)
        midpoint == config.max_levels \div 2
        isExpanding == lvl <= midpoint
    IN  IF isExpanding
        THEN LET primaryPrev == FloorDiv(idx * prevCount, scenesAtThisLevel)
                 first == <<previousLevelSceneIds[Min(primaryPrev, prevCount - 1) + 1]>>
                 secondary == Min(prevCount - 1, primaryPrev + 1)
             IN  Dedup(IF idx > 0 /\ rnd
                          /\ previousLevelSceneIds[secondary + 1] \notin Range(first)
                       THEN Append(first, previousLevelSceneIds[secondary + 1])
                       ELSE first)
        ELSE LET startPrev == FloorDiv(idx * prevCount, scenesAtThisLevel)
                 endPrev == Min(prevCount - 1,
                                FloorDiv((idx + 1) * prevCount, scenesAtThisLevel) - 1)
                 span == [k \in 1..Max(0, endPrev - startPrev + 1) |->
                             previousLevelSceneIds[startPrev + k]]
             IN  Dedup(IF Len(span) = 0 THEN <<previousLevelSceneIds[1]>> ELSE span)

(* calculateIncomingScenes whose contracting branch connects a scene to the
   first scene of its range only *)
calculateIncomingScenes_StartOnly(lvl, idx, scenesAtThisLevel, previousLevelSceneIds, config, rnd) ==
    IF lvl = 0 THEN <<>>
    ELSE IF Len(previousLevelSceneIds) = 0 THEN <<>>
    ELSE
    LET prevCount == Len(previousLevelSceneIds)
        midpoint == config.max_levels \div 2
        isExpanding == lvl <= midpoint
    IN  IF isExpanding
        THEN LET primaryPrev == FloorDiv(idx * prevCount, scenesAtThisLevel)
                 first == <<previousLevelSceneIds[Min(primaryPrev, prevCount - 1) + 1]>>
                 secondary == Max(0, primaryPrev - 1)
             IN  Dedup(IF idx > 0 /\ rnd
                          /\ previousLevelSceneIds[secondary + 1] \notin Range(first)
                       THEN Append(first, previousLevelSceneIds[secondary + 1])
                       ELSE first)
        ELSE LET startPrev == FloorDiv(idx * prevCount, scenesAtThisLevel)
             IN  <<previousLevelSceneIds[startPrev + 1]>>

calculateIncomingScenes(lvl, idx, scenesAtThisLevel, previousLevelSceneIds, config, rnd) ==
    IF lvl = 0 THEN <<>>
    ELSE IF Len(previousLevelSceneIds) = 0 THEN <<>>
    ELSE
    LET prevCount == Len(previousLevelSceneIds)
        midpoint == config.max_levels \div 2
        isExpanding == lvl <= midpoint
    IN  IF isExpanding
        THEN LET primaryPrev == FloorDiv(idx * prevCount, scenesAtThisLevel)
                 first == <<previousLevelSceneIds[Min(primaryPrev, prevCount - 1) + 1]>>
                 secondary == Max(0, primaryPrev - 1)
             IN  Dedup(IF idx > 0 /\ rnd
                          /\ previousLevelSceneIds[secondary + 1] \notin Range(first)
                       THEN Append(first, previousLevelSceneIds[secondary + 1])
                       ELSE first)
        ELSE LET startPrev == FloorDiv(idx * prevCount, scenesAtThisLevel)
                 endPrev == Min(prevCount - 1,
                                FloorDiv((idx + 1) * prevCount, scenesAtThisLevel))
                 span == [k \in 1..Max(0, endPrev - startPrev + 1) |->
                             previousLevelSceneIds[startPrev + k]]
             IN  Dedup(IF Len(span) = 0 THEN <<previousLevelSceneIds[1]>> ELSE span)

(* scenes_by_level[lvl], or <<>> where JavaScript reads undefined *)
LevelIds(sbl, lvl) == IF lvl >= 0 /\ lvl < Len(sbl) THEN sbl[lvl + 1] ELSE <<>>

(* ConnectTarget that gives every decision the first scene the source leads
   to *)
ConnectTarget_FirstOnly(leadingTo, targetSceneIds, i) ==
    IF Len(leadingTo) > 0 THEN leadingTo[1]
    ELSE IF Len(targetSceneIds) > 0 THEN targetSceneIds[1]
    ELSE <<>>

(* connectDecisions: the leads_to of decision i (from 0) of one source *)
ConnectTarget(leadingTo, targetSceneIds, i) ==
    IF Len(leadingTo) > 0 THEN leadingTo[(i % Len(leadingTo)) + 1]
    ELSE IF Len(targetSceneIds) > 0 THEN targetSceneIds[1]
    ELSE <<>>

(* TargetSceneIds that reads the source level *)
TargetSceneIds_SourceLevel(sbl, targetLevel) == LevelIds(sbl, targetLevel - 1)

(* connectDecisions: the ids its targets are taken from *)
TargetSceneIds(sbl, targetLevel) == LevelIds(sbl, targetLevel)

(* connectDecisions that connects the decisions of every scene, not only of
   the scenes of the source level *)
connectDecisions_EveryScene(scn, sbl, targetLevel) ==
    LET targetSceneIds == TargetSceneIds(sbl, targetLevel)
        LeadsFrom(sourceId) ==
            LET Test(targetId) ==
                    /\ targetId \in DOMAIN scn
                    /\ sourceId \in Range(scn[targetId].previous_scene_ids)
            IN  SelectSeq(targetSceneIds, Test)
    IN  [id \in DOMAIN scn |->
            [scn[id] EXCEPT !.decisions =
                [i \in 1..Len(scn[id].decisions) |->
                    [scn[id].decisions[i] EXCEPT !.leads_to =
                        ConnectTarget(LeadsFrom(id), targetSceneIds, i - 1)]]]]

connectDecisions(scn, sbl, targetLevel) ==
    IF targetLevel - 1 < 0 \/ targetLevel >= Len(sbl) THEN scn
    ELSE
    LET sourceLevelSceneIds == LevelIds(sbl, targetLevel - 1)
        targetSceneIds == TargetSceneIds(sbl, targetLevel)
        LeadsFrom(sourceId) ==
            LET Test(targetId) ==
                    /\ targetId \in DOMAIN scn
                    /\ sourceId \in Range(scn[targetId].previous_scene_ids)
            IN  SelectSeq(targetSceneIds, Test)
    IN  [id \in DOMAIN scn |->
            IF id \in Range(sourceLevelSceneIds) /\ Len(scn[id].decisions) > 0
            THEN [scn[id] EXCEPT !.decisions =
                    [i \in 1..Len(scn[id].decisions) |->
                        [scn[id].decisions[i] EXCEPT !.leads_to =
                            ConnectTarget(LeadsFrom(id), targetSceneIds, i - 1)]]]
            ELSE scn[id]]

(* validatePaths: the repaired leads_to of one decision of scene *)
RepairTarget(scn, sbl, scene, decision) ==
    IF decision.leads_to = <<>> \/ decision.leads_to \notin DOMAIN scn
    THEN LET validTargets == LevelIds(sbl, scene.level + 1)
         IN  IF Len(validTargets) > 0 THEN validTargets[1] ELSE decision.leads_to
    ELSE decision.leads_to

(* MarkEndings that leaves the endings' decisions in place *)
MarkEndings_KeepDecisions(scn, sbl, config) ==
    LET lastLevel == config.max_levels - 1
        endingSceneIds == LevelIds(sbl, lastLevel)
    IN  [id \in DOMAIN scn |->
            IF id \in Range(endingSceneIds)
            THEN [scn[id] EXCEPT !.is_ending = TRUE]
            ELSE scn[id]]

(* MarkEndings that takes the level before the last for the last *)
MarkEndings_OffByOne(scn, sbl, config) ==
    LET lastLevel == config.max_levels - 2
        endingSceneIds == LevelIds(sbl, lastLevel)
    IN  [id \in DOMAIN scn |->
            IF id \in Range(endingSceneIds)
            THEN [scn[id] EXCEPT !.is_ending = TRUE, !.decisions = <<>>]
            ELSE scn[id]]

(* MarkEndings that removes one decision of an ending (decisions.pop())
   instead of all of them *)
MarkEndings_PopDecision(scn, sbl, config) ==
    LET lastLevel == config.max_levels - 1
        endingSceneIds == LevelIds(sbl, lastLevel)
    IN  [id \in DOMAIN scn |->
            IF id \in Range(endingSceneIds)
            THEN [scn[id] EXCEPT !.is_ending = TRUE,
                                 !.decisions = SubSeq(@, 1, Len(@) - 1)]
            ELSE scn[id]]

(* validatePaths: ensure all endings are marked as endings *)
MarkEndings(scn, sbl, config) ==
    LET lastLevel == config.max_levels - 1
        endingSceneIds == LevelIds(sbl, lastLevel)
    IN  [id \in DOMAIN scn |->
            IF id \in Range(endingSceneIds)
            THEN [scn[id] EXCEPT !.is_ending = TRUE, !.decisions = <<>>]
            ELSE scn[id]]

validatePaths(scn, sbl, config) ==
    LET marked == MarkEndings(scn, sbl, config)
    IN  [id \in DOMAIN marked |->
            [marked[id] EXCEPT !.decisions =
                [i \in 1..Len(marked[id].decisions) |->
                    [marked[id].decisions[i] EXCEPT !.leads_to =
                        RepairTarget(marked, sbl, marked[id], marked[id].decisions[i])]]]]

-----------------------------------------------------------------------------
(* The orchestrator: generateScene's decisions *)

NoDraft == [narrative |-> "", decisions |-> <<>>]

(* Build decisions with placeholder leads_to *)
BuildDecisions(sceneId, n) ==
    [i \in 1..n |-> [id |-> <<sceneId[1], sceneId[2], i - 1>>,
                     leads_to |-> <<>>,
                     choice_order |-> i]]

SceneTypeOf(lvl, isLastLevel) ==
    IF lvl = 0 THEN "intro" ELSE IF isLastLevel THEN "ending" ELSE "branch"

(* MissingDecisionsRetry that never retries: an empty decisions array goes
   on to the editor or is accepted *)
MissingDecisionsRetry_Never(isEnding, nDecisions, att) ==
    ~isEnding /\ nDecisions = 0 /\ att < 0

(* the retry of a non-ending scene that came back without decisions *)
MissingDecisionsRetry(isEnding, nDecisions, att) ==
    ~isEnding /\ nDecisions = 0 /\ att < MAX_SCENE_REGENERATIONS

(* Reviewed that has every scene reviewed in every mode *)
Reviewed_Always(m, sceneType, isEnding) ==
    m \in {"draft", "polished"}

(* which scenes the editor reviews *)
Reviewed(m, sceneType, isEnding) ==
    m = "polished" \/ sceneType = "intro" \/ isEnding

(* EditorOutcome without the checks of the attempt budget: the loop is left
   by its condition and not by the fallback branch *)
EditorOutcome_NoBudgetCheck(verdict, att) ==
    IF verdict = "ACCEPT" THEN "accept"
    ELSE IF verdict = "REWRITE" THEN "rewrite"
    ELSE "regenerate"

(* what the loop does with the editor's verdict *)
EditorOutcome(verdict, att) ==
    IF verdict = "ACCEPT" THEN "accept"
    ELSE IF verdict = "REWRITE" /\ att < MAX_SCENE_REGENERATIONS THEN "rewrite"
    ELSE IF verdict = "REGENERATE" /\ att < MAX_SCENE_REGENERATIONS THEN "regenerate"
    ELSE "fallback"

(* AcceptedContent that ignores the editor's edit *)
AcceptedContent_RawOnly(edited_content, narrative) == narrative

(* evaluation.edited_content || rawContent.narrative *)
AcceptedContent(edited_content, narrative) ==
    IF edited_content # "" THEN edited_content ELSE narrative

(* endingQuality and endingSummary of a scene that is no ending: undefined *)
NoEnding == [quality |-> "none", summary |-> "none"]

(* PlannedEnding that counts the scene being generated into its index *)
PlannedEnding_CountsItself(isEnding, possible_endings, endingIndex) ==
    IF ~isEnding THEN NoEnding
    ELSE IF Len(possible_endings) = 0 THEN [quality |-> "neutral", summary |-> "none"]
    ELSE LET plannedEnding ==
                 possible_endings[((endingIndex + 1) % Len(possible_endings)) + 1]
         IN  [quality |-> plannedEnding.quality, summary |-> plannedEnding.summary]

(* generateScene: endingQuality and endingSummary. possible_endings is an
   array after WorldRulesSchema, and an empty array is truthy; with no entry
   the index is NaN and plannedEnding undefined *)
PlannedEnding(isEnding, possible_endings, endingIndex) ==
    IF ~isEnding THEN NoEnding
    ELSE IF Len(possible_endings) = 0 THEN [quality |-> "neutral", summary |-> "none"]
    ELSE LET plannedEnding ==
                 possible_endings[(endingIndex % Len(possible_endings)) + 1]
         IN  [quality |-> plannedEnding.quality, summary |-> plannedEnding.summary]

NewScene(sceneId, sceneType, lvl, content, decisions, isEnding, planned, incomingSceneIds) ==
    [id |-> sceneId,
     scene_type |-> sceneType,
     level |-> lvl,
     content |-> content,
     decisions |-> decisions,
     is_ending |-> isEnding,
     ending_quality |-> planned.quality,
     ending_summary |-> planned.summary,
     previous_scene_ids |-> incomingSceneIds]

(* the lines generateScene puts into additionalConstraints, by the kind of
   retry; the texts taken from the editor's evaluation are named, not spelt *)
ConstraintLines(kind) ==
    CASE kind = "empty_decisions" ->
            <<"CRITICAL: You MUST include the decisions array with player choices.",
              "The decisions array was empty in your previous response.",
              "Include exactly decisionsToGenerate decisions in your JSON output.">>
      [] kind = "rewrite" ->
            <<"evaluation.rewrite_instructions || evaluation.reason">>
      [] kind = "regenerate" ->
            <<"PREVIOUS ATTEMPT FAILED: evaluation.regenerate_reason || evaluation.reason",
              "Focus on vivid sensory details and concrete action.",
              "Make choices feel genuinely different and consequential.">>
      [] OTHER -> <<>>

DecisionsToGenerate(isEnding, config) ==
    IF isEnding THEN 0 ELSE config.decisions_per_scene

(* buildScenePrompt: the parts of the prompt that vary within a scene or
   with its type; feedback is the EDITOR FEEDBACK section, <<>> if absent *)
buildScenePrompt(sceneType, decisionsToGenerate, constraints) ==
    [type |-> sceneType,
     decisions |-> decisionsToGenerate,
     feedback |-> ConstraintLines(constraints)]

-----------------------------------------------------------------------------
(* The worker: the StoryJob row and the rows of a saved story *)

QueuedJob == [status |-> "queued", progress |-> 0, storyId |-> "", error |-> ""]

NoRows == [stories |-> {}, scenes |-> {}, decisions |-> {}]

(* updateJobProgress: the row after prisma.storyJob.update *)
updateJobProgress(j, progress) ==
    [j EXCEPT !.progress = progress,
              !.status = IF progress >= 100 THEN "succeeded" ELSE "running"]

(* run(): the progress reported when a level is entered *)
LevelProgress(lvl, config) == 10 + FloorDiv(lvl * 80, config.max_levels)

(* processStoryJob: the rows created for finalState *)
SavedRows(scn) ==
    [stories |-> {"story"},
     scenes |-> DOMAIN scn,
     decisions |-> UNION {{scn[id].decisions[i].id : i \in 1..Len(scn[id].decisions)} :
                             id \in DOMAIN scn}]

-----------------------------------------------------------------------------
(* The play routes: rows and requests *)

(* the most Playthrough rows *)
MaxPlaythroughs == 2

(* the most decide requests in work at a time *)
MaxDeciding == 2

(* no request has been answered *)
NoResponse == [status |-> 0, error |-> ""]

(* before the first request: no Playthrough row, no decision chosen *)
NotPlayed ==
    /\ playthroughs = <<>>
    /\ timesChosen = <<>>
    /\ deciding = EmptyBag
    /\ now = 1
    /\ response = NoResponse

(* the Decision row created for a decision of the final state: its scene and
   nextSceneId, null (<<>>) when leads_to names no saved scene *)
DecisionRow(scn, decisionId) ==
    LET sceneId == CHOOSE id \in DOMAIN scn :
                       \E i \in 1..Len(scn[id].decisions) :
                           scn[id].decisions[i].id = decisionId
        decision == scn[sceneId].decisions[
                        CHOOSE i \in 1..Len(scn[sceneId].decisions) :
                            scn[sceneId].decisions[i].id = decisionId]
    IN  [sceneId |-> sceneId,
         nextSceneId |-> IF decision.leads_to \in DOMAIN scn THEN decision.leads_to
                         ELSE <<>>]

(* Decision.timesChosen, 0 by default *)
TimesChosen(chosen, decisionId) ==
    IF decisionId \in DOMAIN chosen THEN chosen[decisionId] ELSE 0

(* prisma.playthrough.create of POST /:id/play *)
NewPlaythrough(storyId, introSceneId) ==
    [storyId |-> storyId,
     currentSceneId |-> introSceneId,
     pathTaken |-> <<introSceneId>>,
     decisionsMade |-> <<>>,
     endingSceneId |-> <<>>,
     completedAt |-> 0]

(* POST /:id/play: the response, 201 when a playthrough is created *)
PlayResponse(userId, j, rows, scn) ==
    IF userId = "" THEN [status |-> 400, error |-> "Missing required field: userId"]
    ELSE IF j.status # "succeeded" \/ j.storyId = ""
    THEN [status |-> 404, error |-> "Story not found or not complete"]
    ELSE IF ~\E id \in rows.scenes : scn[id].scene_type = "intro"
    THEN [status |-> 500, error |-> "Story has no intro scene"]
    ELSE [status |-> 201, error |-> ""]

(* DecideResponse that does not compare the scene of the decision with the
   current scene of the playthrough *)
DecideResponse_AnyScene(decisionId, j, playthrough, rows, scn) ==
    IF decisionId = <<>>
    THEN [status |-> 400, error |-> "Missing required field: decisionId"]
    ELSE IF j.storyId = "" THEN [status |-> 404, error |-> "Story not found"]
    ELSE IF playthrough = <<>> \/ playthrough.storyId # j.storyId
    THEN [status |-> 404, error |-> "Playthrough not found"]
    ELSE IF playthrough.completedAt # 0
    THEN [status |-> 400, error |-> "Playthrough already completed"]
    ELSE IF decisionId \notin rows.decisions
    THEN [status |-> 400, error |-> "Invalid decision for current scene"]
    ELSE IF DecisionRow(scn, decisionId).nextSceneId = <<>>
    THEN [status |-> 500, error |-> "Decision has no next scene"]
    ELSE IF DecisionRow(scn, decisionId).nextSceneId \notin rows.scenes
    THEN [status |-> 500, error |-> "Next scene not found"]
    ELSE [status |-> 200, error |-> ""]

(* POST /:id/play/:playthroughId/decide, up to the update: the response the
   request gets for the job, the Playthrough row (<<>>: none) and the rows it
   has read; 200 when it goes on to the update *)
DecideResponse(decisionId, j, playthrough, rows, scn) ==
    IF decisionId = <<>>
    THEN [status |-> 400, error |-> "Missing required field: decisionId"]
    ELSE IF j.storyId = "" THEN [status |-> 404, error |-> "Story not found"]
    ELSE IF playthrough = <<>> \/ playthrough.storyId # j.storyId
    THEN [status |-> 404, error |-> "Playthrough not found"]
    ELSE IF playthrough.completedAt # 0
    THEN [status |-> 400, error |-> "Playthrough already completed"]
    ELSE IF decisionId \notin rows.decisions
            \/ DecisionRow(scn, decisionId).sceneId # playthrough.currentSceneId
    THEN [status |-> 400, error |-> "Invalid decision for current scene"]
    ELSE IF DecisionRow(scn, decisionId).nextSceneId = <<>>
    THEN [status |-> 500, error |-> "Decision has no next scene"]
    ELSE IF DecisionRow(scn, decisionId).nextSceneId \notin rows.scenes
    THEN [status |-> 500, error |-> "Next scene not found"]
    ELSE [status |-> 200, error |-> ""]

(* prisma.playthrough.update of the decide route: updateData, built from the
   Playthrough row the request has read, written over the row as it is now *)
UpdatedPlaythrough(row, read, decisionId, scn, time) ==
    LET nextScene == scn[DecisionRow(scn, decisionId).nextSceneId]
    IN  [row EXCEPT
            !.currentSceneId = nextScene.id,
            !.pathTaken = Append(read.pathTaken, nextScene.id),
            !.decisionsMade = Append(read.decisionsMade, decisionId),
            !.endingSceneId = IF nextScene.is_ending THEN nextScene.id ELSE @,
            !.completedAt = IF nextScene.is_ending THEN time ELSE @]

(* prisma.decision.update: timesChosen: { increment: 1 } *)
IncrementChosen(chosen, decisionId) ==
    (decisionId :> (TimesChosen(chosen, decisionId) + 1)) @@ chosen

(* the ids of the Decision rows and an id no row has *)
DecisionIds(rows) == rows.decisions \cup {<<9, 9, 9>>}

(* the time after the update of a decide request: new Date() is called when
   the next scene is an ending *)
TimeAfter(decisionId, scn, time) ==
    IF scn[DecisionRow(scn, decisionId).nextSceneId].is_ending THEN time + 1 ELSE time

(* the Playthrough row with an id, <<>> if there is none *)
FindPlaythrough(rows, playthroughId) ==
    IF playthroughId \in 1..Len(rows) THEN rows[playthroughId] ELSE <<>>

-----------------------------------------------------------------------------
(* The run *)

(* LevelDone of a loop that is left after its first scene *)
LevelDone_FirstScene(i, sceneCount) == i >= 0

(* LevelDone of a loop that runs while i <= sceneCount *)
LevelDone_OneMore(i, sceneCount) == ~(i + 1 <= sceneCount)

(* generateLevel(): the scene loop ends after scene i *)
LevelDone(i, sceneCount) == ~(i + 1 < sceneCount)

IsLastLevel == level = diamond_config.max_levels - 1

SceneId == generateCYOASceneId(level, index)

SceneType == SceneTypeOf(level, IsLastLevel)

Metered(n) == IF llm.metered THEN n + 1 ELSE n

NoTrace == [scene |-> <<>>, gens |-> <<>>, evals |-> <<>>, returned |-> FALSE]

(* the trace after t has been seen: a client that does not trace keeps none *)
Traced(t) == IF llm.traced THEN t ELSE trace

(* llm.generateJSON of generateScene: the prompt sent and the answer got in
   attempt attempts + 1; returns tells that generateScene returns on it *)
GenTrace(narrative, decisions, returns) ==
    Traced([trace EXCEPT
        !.gens = Append(@, [attempt |-> attempts + 1,
                            prompt |-> buildScenePrompt(SceneType,
                                           DecisionsToGenerate(IsLastLevel, diamond_config),
                                           additionalConstraints),
                            narrative |-> narrative,
                            decisions |-> decisions]),
        !.returned = returns])

(* editor.evaluateScene: the draft evaluated and the evaluation got *)
EvalTrace(verdict, edited_content, returns) ==
    Traced([trace EXCEPT
        !.evals = Append(@, [attempt |-> attempts,
                             narrative |-> draft.narrative,
                             decision |-> verdict,
                             edited_content |-> edited_content]),
        !.returned = returns])

(* processStoryJob marks the job running and calls run(): progress 5, the
   world rules, progress 10, then the diamond shape; the level loop is
   entered *)
RunBegin ==
    /\ pc = "start"
    /\ job' = updateJobProgress(job, 10)
    /\ genCalls' = Metered(genCalls)
    /\ diamondShape' = calculateDiamondShape(diamond_config)
    /\ level' = 0
    /\ index' = 0
    /\ pc' = "scene"
    /\ UNCHANGED <<play, diamond_config, mode, llm, incoming, attempts, additionalConstraints,
                   draft, scenes, scenes_by_level, scenes_generated, criticCalls,
                   trace, db, thrown>>

(* generateLevel(): one iteration of the scene loop up to the first
   generation call of generateScene; before the first scene of a level run()
   reports the level's progress *)
SceneBegin ==
    /\ pc = "scene"
    /\ job' = IF index = 0
              THEN updateJobProgress(job, LevelProgress(level, diamond_config))
              ELSE job
    /\ trace' = Traced([NoTrace EXCEPT !.scene = SceneId])
    /\ \E rnd \in BOOLEAN :
          incoming' = calculateIncomingScenes(level, index, diamondShape[level + 1],
                          LevelIds(scenes_by_level, level - 1), diamond_config, rnd)
    /\ attempts' = 0
    /\ additionalConstraints' = "none"
    /\ criticCalls' = 0
    /\ draft' = NoDraft
    /\ pc' = "generate"
    /\ UNCHANGED <<play, diamond_config, mode, llm, diamondShape, level, index, scenes,
                   scenes_by_level, scenes_generated, genCalls, db, thrown>>

(* generateScene() returns scene: generateLevel() adds it to the state, and
   after the last scene of a level connects the previous level; run() goes to
   the next level or to validation *)
SceneReturned(content, decisions) ==
    LET endingIndex == Len(LevelIds(scenes_by_level, level))
        scene == NewScene(SceneId, SceneType, level, content, decisions, IsLastLevel,
                          PlannedEnding(IsLastLevel, llm.possible_endings, endingIndex),
                          incoming)
        added == (SceneId :> scene) @@ scenes
        byLevel == [scenes_by_level EXCEPT ![level + 1] = Append(@, SceneId)]
        levelDone == LevelDone(index, diamondShape[level + 1])
    IN  /\ scenes' = IF levelDone /\ level > 0
                     THEN connectDecisions(added, byLevel, level)
                     ELSE added
        /\ scenes_by_level' = byLevel
        /\ scenes_generated' = scenes_generated + 1
        /\ index' = IF levelDone THEN 0 ELSE index + 1
        /\ level' = IF levelDone THEN level + 1 ELSE level
        /\ pc' = IF ~levelDone THEN "scene"
                 ELSE IF level + 1 < diamond_config.max_levels THEN "scene"
                 ELSE "validate"
        /\ incoming' = <<>>
        /\ attempts' = 0
        /\ additionalConstraints' = "none"
        /\ draft' = NoDraft
        /\ criticCalls' = 0
        /\ UNCHANGED <<job, db, thrown>>

(* generateScene(): one generation call and what follows it, up to and
   including the call of the editor if the scene is reviewed *)
Generate ==
    /\ pc = "generate"
    /\ IF attempts < MAX_SCENE_REGENERATIONS
       THEN \E n \in llm.choices[SceneType], narrative \in llm.narratives[SceneType] :
              LET decisions == BuildDecisions(SceneId, n)
              IN  /\ genCalls' = Metered(genCalls)
                  /\ IF MissingDecisionsRetry(IsLastLevel, n, attempts + 1)
                     THEN /\ attempts' = attempts + 1
                          /\ additionalConstraints' = "empty_decisions"
                          /\ trace' = GenTrace(narrative, decisions, FALSE)
                          /\ UNCHANGED <<pc, draft, scenes, scenes_by_level,
                                         scenes_generated, level, index, incoming,
                                         criticCalls, job, db, thrown>>
                     ELSE IF Reviewed(mode, SceneType, IsLastLevel)
                     THEN /\ attempts' = attempts + 1
                          /\ draft' = [narrative |-> narrative, decisions |-> decisions]
                          /\ criticCalls' = criticCalls + 1
                          /\ pc' = "evaluate"
                          /\ trace' = GenTrace(narrative, decisions, FALSE)
                          /\ UNCHANGED <<additionalConstraints, scenes, scenes_by_level,
                                         scenes_generated, level, index, incoming,
                                         job, db, thrown>>
                     ELSE /\ SceneReturned(narrative, decisions)
                          /\ trace' = GenTrace(narrative, decisions, TRUE)
       ELSE /\ SceneReturned("", <<>>)
            /\ trace' = Traced([trace EXCEPT !.returned = TRUE])
            /\ UNCHANGED genCalls
    /\ UNCHANGED <<play, diamond_config, mode, llm, diamondShape>>

(* generateScene(): the editor's answer and what follows it *)
Evaluate ==
    /\ pc = "evaluate"
    /\ \E verdict \in llm.verdicts[SceneType], edited_content \in llm.edits[SceneType] :
          LET outcome == EditorOutcome(verdict, attempts)
          IN  IF outcome = "accept"
              THEN /\ SceneReturned(AcceptedContent(edited_content, draft.narrative),
                                    draft.decisions)
                   /\ trace' = EvalTrace(verdict, edited_content, TRUE)
              ELSE IF outcome = "fallback"
              THEN /\ SceneReturned(draft.narrative, draft.decisions)
                   /\ trace' = EvalTrace(verdict, edited_content, TRUE)
              ELSE /\ additionalConstraints' = outcome
                   /\ draft' = NoDraft
                   /\ pc' = "generate"
                   /\ trace' = EvalTrace(verdict, edited_content, FALSE)
                   /\ UNCHANGED <<scenes, scenes_by_level, scenes_generated, level,
                                  index, incoming, attempts, criticCalls, job, db,
                                  thrown>>
    /\ UNCHANGED <<play, diamond_config, mode, llm, diamondShape, genCalls>>

(* run(): phase 4: progress 95, validatePaths, progress 100, return *)
Validate ==
    /\ pc = "validate"
    /\ scenes' = validatePaths(scenes, scenes_by_level, diamond_config)
    /\ job' = updateJobProgress(updateJobProgress(job, 95), 100)
    /\ pc' = "done"
    /\ UNCHANGED <<play, diamond_config, mode, llm, diamondShape, level, index, incoming,
                   attempts, additionalConstraints, draft, scenes_by_level,
                   scenes_generated, genCalls, criticCalls, trace, db, thrown>>

Next == RunBegin \/ SceneBegin \/ Generate \/ Evaluate \/ Validate

(* A collaborator throws: the world-rules call (after progress 5), a
   generation call of generateScene or the editor's evaluation.  Nothing in
   run(), generateLevel() or generateScene() catches: the error leaves run(). *)
CollaboratorThrows ==
    /\ llm.throws
    /\ pc \in {"start", "generate", "evaluate"}
    /\ pc = "generate" => attempts < MAX_SCENE_REGENERATIONS
    /\ thrown' = IF pc = "evaluate" THEN "critic" ELSE "generation"
    /\ job' = IF pc = "start" THEN updateJobProgress(job, 5) ELSE job
    /\ pc' = "thrown"
    /\ UNCHANGED <<play, diamond_config, mode, llm, diamondShape, level, index, incoming,
                   attempts, additionalConstraints, draft, scenes, scenes_by_level,
                   scenes_generated, genCalls, criticCalls, trace, db>>

(* run() awaits the promise onProgress returns (progress 5 and 10 at the
   start, the level's progress before the first scene of a level, 95 and 100
   around validatePaths): a promise that rejects throws out of run(), one
   that never settles leaves run() waiting.  second tells that the failing
   call is the second of the two made at the start or around validatePaths. *)
ProgressFails ==
    /\ IF pc = "scene" THEN index = 0 ELSE pc \in {"start", "validate"}
    /\ \E outcome \in llm.progress \ {"resolves"}, second \in BOOLEAN :
          /\ pc' = IF outcome = "rejects" THEN "thrown" ELSE "blocked"
          /\ thrown' = IF outcome = "rejects" THEN "progress" ELSE thrown
          /\ job' = IF pc = "start"
                    THEN IF second THEN updateJobProgress(job, 5)
                         ELSE [job EXCEPT !.status = "running"]
                    ELSE IF pc = "validate" /\ second THEN updateJobProgress(job, 95)
                    ELSE job
    /\ UNCHANGED <<play, diamond_config, mode, llm, diamondShape, level, index, incoming,
                   attempts, additionalConstraints, draft, scenes, scenes_by_level,
                   scenes_generated, genCalls, criticCalls, trace, db>>

(* processStoryJob, after run() has returned: the story, its scenes and their
   decisions are created and the job is updated with the story's id *)
SaveStory ==
    /\ pc = "done"
    /\ db' = SavedRows(scenes)
    /\ job' = [job EXCEPT !.status = "succeeded", !.progress = 100, !.storyId = "story"]
    /\ pc' = "saved"
    /\ UNCHANGED <<play, diamond_config, mode, llm, diamondShape, level, index, incoming,
                   attempts, additionalConstraints, draft, scenes, scenes_by_level,
                   scenes_generated, genCalls, criticCalls, trace, thrown>>

(* MarkFailed that rethrows without updating the job *)
MarkFailed_RethrowOnly ==
    /\ pc = "thrown"
    /\ pc' = "failed"
    /\ UNCHANGED <<play, diamond_config, mode, llm, diamondShape, level, index, incoming,
                   attempts, additionalConstraints, draft, scenes, scenes_by_level,
                   scenes_generated, genCalls, criticCalls, trace, job, db, thrown>>

(* processStoryJob, catch: the job is marked failed and the error is rethrown *)
MarkFailed ==
    /\ pc = "thrown"
    /\ job' = [job EXCEPT !.status = "failed", !.error = thrown]
    /\ pc' = "failed"
    /\ UNCHANGED <<play, diamond_config, mode, llm, diamondShape, level, index, incoming,
                   attempts, additionalConstraints, draft, scenes, scenes_by_level,
                   scenes_generated, genCalls, criticCalls, trace, db, thrown>>

NextJob ==
    \/ RunBegin \/ SceneBegin \/ Generate \/ Evaluate \/ Validate
    \/ CollaboratorThrows \/ ProgressFails \/ SaveStory \/ MarkFailed

(* processStoryJob, after run() has returned: one of the creates of the save
   throws, prisma.story.create (nothing is saved), a prisma.scene.create (the
   story and the scenes before it are saved) or a prisma.decision.create (the
   story, the scenes and the decisions before it are saved); the catch is
   entered *)
SaveFails ==
    /\ pc = "done"
    /\ llm.throws
    /\ \E failing \in {"story", "scene", "decision"} :
          db' = CASE failing = "story" -> db
                  [] failing = "scene" -> [db EXCEPT !.stories = {"story"}]
                  [] failing = "decision" ->
                        [db EXCEPT !.stories = {"story"}, !.scenes = DOMAIN scenes]
    /\ thrown' = "save"
    /\ pc' = "thrown"
    /\ UNCHANGED <<play, diamond_config, mode, llm, diamondShape, level, index, incoming,
                   attempts, additionalConstraints, draft, scenes, scenes_by_level,
                   scenes_generated, genCalls, criticCalls, trace, job>>

NextSave == NextJob \/ SaveFails

(* createStoryGenerationState and the orchestrator's constructor *)
InitRun(config, m, env) ==
    /\ diamond_config = config
    /\ mode = m
    /\ llm = env
    /\ pc = "start"
    /\ diamondShape = <<>>
    /\ level = 0
    /\ index = 0
    /\ incoming = <<>>
    /\ attempts = 0
    /\ additionalConstraints = "none"
    /\ draft = NoDraft
    /\ scenes = <<>>
    /\ scenes_by_level = [l \in 1..config.max_levels |-> <<>>]
    /\ scenes_generated = 0
    /\ genCalls = 0
    /\ criticCalls = 0
    /\ trace = NoTrace
    /\ job = QueuedJob
    /\ db = NoRows
    /\ thrown = "none"
    /\ NotPlayed

(* possible_endings where the generated world rules have none: the default of
   WorldRulesSchema *)
DefaultEndings ==
    <<[quality |-> "bad", summary |-> "Unfavorable outcome"],
      [quality |-> "good", summary |-> "Positive outcome"],
      [quality |-> "best", summary |-> "Optimal outcome"]>>

(* Collaborators that may answer anything: between 0 and MaxChoices decisions
   for a scene that is asked for some, none or MaxChoices for an ending, any
   verdict. *)
AnyAnswer ==
    [choices |-> [t \in SceneTypes |-> IF t = "ending" THEN {0, MaxChoices}
                                       ELSE 0..MaxChoices],
     narratives |-> [t \in SceneTypes |-> {"n"}],
     verdicts |-> [t \in SceneTypes |-> Verdicts],
     edits |-> [t \in SceneTypes |-> {""}],
     possible_endings |-> DefaultEndings,
     metered |-> FALSE,
     traced |-> FALSE,
     throws |-> FALSE,
     progress |-> {"resolves"}]

(* Collaborators that answer as asked: decisions_per_scene decisions, none for
   an ending, and the editor accepts. *)
AsAsked(config) ==
    [choices |-> [t \in SceneTypes |-> IF t = "ending" THEN {0}
                                       ELSE {config.decisions_per_scene}],
     narratives |-> [t \in SceneTypes |-> {"n"}],
     verdicts |-> [t \in SceneTypes |-> {"ACCEPT"}],
     edits |-> [t \in SceneTypes |-> {""}],
     possible_endings |-> DefaultEndings,
     metered |-> FALSE,
     traced |-> FALSE,
     throws |-> FALSE,
     progress |-> {"resolves"}]

(* A generator that may return fewer decisions than asked for; the editor
   accepts. *)
FewerThanAsked(config) ==
    [AsAsked(config) EXCEPT
        !.choices = [t \in SceneTypes |-> IF t = "ending" THEN {0}
                                          ELSE 0..config.decisions_per_scene]]

SmallConfigs ==
    {[max_levels |-> 3, max_width |-> 2, min_endings |-> 2, max_endings |-> 3,
      decisions_per_scene |-> 2],
     [max_levels |-> 4, max_width |-> 2, min_endings |-> 2, max_endings |-> 3,
      decisions_per_scene |-> 2]}

(* Runs of the small configs in both modes with collaborators that may answer
   anything, and draft runs of every valid config with collaborators that
   answer as asked. *)
Init ==
    \/ \E config \in SmallConfigs, m \in {"draft", "polished"} :
          InitRun(config, m, AnyAnswer)
    \/ \E config \in DiamondConfigSchema :
          InitRun(config, "draft", AsAsked(config))

Spec == Init /\ [][Next]_vars

(* Runs of the quick preset *)
InitQuick ==
    InitRun(STORY_PRESETS.quick, "draft", FewerThanAsked(STORY_PRESETS.quick))

SpecQuick == InitQuick /\ [][Next]_vars

(* Runs of the smallest config with a client that counts its calls *)
InitBudget ==
    \E config \in {c \in SmallConfigs : c.max_levels = MinLevels},
       m \in {"draft", "polished"} :
        InitRun(config, m, [AnyAnswer EXCEPT !.metered = TRUE])

SpecBudget == InitBudget /\ [][Next]_vars

(* Collaborators that may answer anything for the scenes of type focus, with
   drafts that differ from call to call and an editor that may edit what it
   accepts, and that answer as asked for the other scenes; the client keeps
   a trace of the calls. *)
Traceable(config, focus) ==
    LET Of(free, asked) == [t \in SceneTypes |-> IF t = focus THEN free[t] ELSE asked[t]]
    IN  [choices |-> Of(AnyAnswer.choices, AsAsked(config).choices),
         narratives |-> Of([t \in SceneTypes |-> {"a", "b"}], AsAsked(config).narratives),
         verdicts |-> Of(AnyAnswer.verdicts, AsAsked(config).verdicts),
         edits |-> Of([t \in SceneTypes |-> {"", "e"}], AsAsked(config).edits),
         possible_endings |-> DefaultEndings,
         metered |-> FALSE,
         traced |-> TRUE,
         throws |-> FALSE,
         progress |-> {"resolves"}]

(* Runs of the smallest config with collaborators whose calls are traced *)
InitContent ==
    \E config \in {c \in SmallConfigs : c.max_levels = MinLevels},
       m \in {"draft", "polished"}, focus \in SceneTypes :
        InitRun(config, m, Traceable(config, focus))

SpecContent == InitContent /\ [][Next]_vars

(* A generator that returns the decisions asked for or one more than a scene
   may have; the editor accepts. *)
MoreThanAsked(config) ==
    [AsAsked(config) EXCEPT
        !.choices = [t \in SceneTypes |->
                        IF t = "ending" THEN {0}
                        ELSE {config.decisions_per_scene, MaxDecisions + 1}]]

(* Runs of the small configs with a generator that may return too many
   decisions *)
InitOversized ==
    \E config \in SmallConfigs, m \in {"draft", "polished"} :
        InitRun(config, m, MoreThanAsked(config))

SpecOversized == InitOversized /\ [][Next]_vars

(* Collaborators that may throw and a progress callback whose promise may
   reject or never settle; the editor may ask for a rewrite. *)
Unreliable(config) ==
    [AsAsked(config) EXCEPT !.verdicts = [t \in SceneTypes |-> {"ACCEPT", "REWRITE"}],
                            !.throws = TRUE,
                            !.progress = {"resolves", "rejects", "hangs"}]

(* Jobs of the three presets in both modes *)
InitJob ==
    \E preset \in DOMAIN STORY_PRESETS, m \in {"draft", "polished"} :
        InitRun(STORY_PRESETS[preset], m, Unreliable(STORY_PRESETS[preset]))

SpecJob == InitJob /\ [][NextJob]_vars

(* Jobs of the three presets in both modes, the creates of the save among the
   calls that may throw *)
SpecSave == InitJob /\ [][NextSave]_vars

(* the values of qualityEnum *)
EndingQualities == <<"bad", "neutral", "good", "best", "secret">>

(* the most possible_endings of generated world rules *)
MaxPlanned == 4

(* summaries of possible endings *)
Summaries == <<"first", "second", "third", "fourth", "fifth", "sixth">>

(* world rules with n possible endings, told apart by their summaries *)
PlannedEndings(n) ==
    [k \in 1..n |-> [quality |-> EndingQualities[((k - 1) % Len(EndingQualities)) + 1],
                     summary |-> Summaries[((k - 1) % Len(Summaries)) + 1]]]

(* Collaborators that answer as asked, the world rules having n possible
   endings *)
Planning(config, n) ==
    [AsAsked(config) EXCEPT !.possible_endings = PlannedEndings(n)]

(* Draft runs of the small configs and of the quick preset, with world rules
   of 0 to MaxPlanned possible endings *)
InitEndings ==
    \E config \in SmallConfigs \cup {STORY_PRESETS.quick}, n \in 0..MaxPlanned :
        InitRun(config, "draft", Planning(config, n))

SpecEndings == InitEndings /\ [][Next]_vars

(* Draft runs of the three presets with collaborators that answer as asked *)
InitPresets ==
    \E preset \in DOMAIN STORY_PRESETS :
        InitRun(STORY_PRESETS[preset], "draft", AsAsked(STORY_PRESETS[preset]))

SpecPresets == InitPresets /\ [][Next]_vars

(* calculateDiamondShape applied to every valid config *)
ShapeCall ==
    /\ pc = "shape"
    /\ diamondShape' = calculateDiamondShape(diamond_config)
    /\ pc' = "shaped"
    /\ UNCHANGED <<play, diamond_config, mode, llm, level, index, incoming, attempts,
                   additionalConstraints, draft, scenes, scenes_by_level,
                   scenes_generated, genCalls, criticCalls, trace, job, db, thrown>>

InitShape ==
    /\ diamond_config \in DiamondConfigSchema
    /\ mode = "draft"
    /\ llm = AsAsked(diamond_config)
    /\ pc = "shape"
    /\ diamondShape = <<>>
    /\ level = 0
    /\ index = 0
    /\ incoming = <<>>
    /\ attempts = 0
    /\ additionalConstraints = "none"
    /\ draft = NoDraft
    /\ scenes = <<>>
    /\ scenes_by_level = <<>>
    /\ scenes_generated = 0
    /\ genCalls = 0
    /\ criticCalls = 0
    /\ trace = NoTrace
    /\ job = QueuedJob
    /\ db = NoRows
    /\ thrown = "none"
    /\ NotPlayed

NextShape == ShapeCall

SpecShape == InitShape /\ [][NextShape]_vars

(* POST /:id/play *)
StartPlay ==
    /\ Len(playthroughs) < MaxPlaythroughs
    /\ \E userId \in {"", "user"} :
          LET answer == PlayResponse(userId, job, db, scenes)
              introScene == CHOOSE id \in db.scenes : scenes[id].scene_type = "intro"
          IN  /\ response' = answer
              /\ playthroughs' = IF answer.status = 201
                                 THEN Append(playthroughs,
                                             NewPlaythrough(job.storyId, introScene))
                                 ELSE playthroughs
    /\ UNCHANGED <<diamond_config, mode, llm, pc, diamondShape, level, index, incoming,
                   attempts, additionalConstraints, draft, scenes, scenes_by_level,
                   scenes_generated, genCalls, criticCalls, trace, job, db, thrown,
                   timesChosen, deciding, now>>

(* POST /:id/play/:playthroughId/decide, handled with no other request in
   between *)
Decide ==
    /\ pc = "saved"
    /\ \E playthroughId \in 1..MaxPlaythroughs, decisionId \in DecisionIds(db) \cup {<<>>} :
          LET read == FindPlaythrough(playthroughs, playthroughId)
              answer == DecideResponse(decisionId, job, read, db, scenes)
          IN  /\ response' = answer
              /\ IF answer.status = 200
                 THEN /\ playthroughs' =
                           [playthroughs EXCEPT ![playthroughId] =
                               UpdatedPlaythrough(@, read, decisionId, scenes, now)]
                      /\ timesChosen' = IncrementChosen(timesChosen, decisionId)
                      /\ now' = TimeAfter(decisionId, scenes, now)
                 ELSE UNCHANGED <<playthroughs, timesChosen, now>>
    /\ UNCHANGED <<diamond_config, mode, llm, pc, diamondShape, level, index, incoming,
                   attempts, additionalConstraints, draft, scenes, scenes_by_level,
                   scenes_generated, genCalls, criticCalls, trace, job, db, thrown,
                   deciding>>

(* the decide route up to its update: the request reads the job, the
   playthrough, the decision and the next scene, and is answered if it is
   rejected *)
DecideRead ==
    /\ pc = "saved"
    /\ BagCardinality(deciding) < MaxDeciding
    /\ \E playthroughId \in 1..MaxPlaythroughs, decisionId \in DecisionIds(db) \cup {<<>>} :
          LET read == FindPlaythrough(playthroughs, playthroughId)
              answer == DecideResponse(decisionId, job, read, db, scenes)
          IN  /\ IF answer.status = 200
                 THEN /\ deciding' = deciding (+) SetToBag({[playthroughId |-> playthroughId,
                                                             decisionId |-> decisionId,
                                                             playthrough |-> read]})
                      /\ UNCHANGED response
                 ELSE /\ response' = answer
                      /\ UNCHANGED deciding
    /\ UNCHANGED <<diamond_config, mode, llm, pc, diamondShape, level, index, incoming,
                   attempts, additionalConstraints, draft, scenes, scenes_by_level,
                   scenes_generated, genCalls, criticCalls, trace, job, db, thrown,
                   playthroughs, timesChosen, now>>

(* the decide route from its update on: prisma.playthrough.update,
   prisma.decision.update and the response *)
DecideWrite ==
    /\ \E request \in BagToSet(deciding) :
          /\ playthroughs' =
                [playthroughs EXCEPT ![request.playthroughId] =
                    UpdatedPlaythrough(@, request.playthrough, request.decisionId,
                                       scenes, now)]
          /\ timesChosen' = IncrementChosen(timesChosen, request.decisionId)
          /\ now' = TimeAfter(request.decisionId, scenes, now)
          /\ deciding' = deciding (-) SetToBag({request})
          /\ response' = [status |-> 200, error |-> ""]
    /\ UNCHANGED <<diamond_config, mode, llm, pc, diamondShape, level, index, incoming,
                   attempts, additionalConstraints, draft, scenes, scenes_by_level,
                   scenes_generated, genCalls, criticCalls, trace, job, db, thrown>>

(* A generated and saved story, played by requests handled one after another *)
NextPlay == Next \/ SaveStory \/ StartPlay \/ Decide

InitPlay ==
    \E config \in {c \in SmallConfigs : c.max_levels = MinLevels} :
        InitRun(config, "draft", AsAsked(config))

SpecPlay == InitPlay /\ [][NextPlay]_vars

(* A generated and saved story, played by requests handled concurrently *)
NextRace == Next \/ SaveStory \/ StartPlay \/ DecideRead \/ DecideWrite

SpecRace == InitPlay /\ [][NextRace]_vars

(* connectDecisions applied to two adjacent levels *)
ConnectCall ==
    /\ pc = "connect"
    /\ scenes' = connectDecisions(scenes, scenes_by_level, level)
    /\ pc' = "connected"
    /\ UNCHANGED <<play, diamond_config, mode, llm, diamondShape, level, index, incoming,
                   attempts, additionalConstraints, draft, scenes_by_level,
                   scenes_generated, genCalls, criticCalls, trace, job, db, thrown>>

(* the longest decisions array of a scene given to ConnectCall *)
MaxConnected == 3

(* the most scenes of the target level given to ConnectCall *)
MaxTargets == 3

ConnectConfig ==
    [max_levels |-> 4, max_width |-> 2, min_endings |-> 2, max_endings |-> 3,
     decisions_per_scene |-> 2]

(* The state connectDecisions(state, 2) is called in: the intro, connected to
   the two scenes of level 1; the two scenes of level 1 with up to
   MaxConnected decisions each, not connected; up to MaxTargets scenes of
   level 2, each with one or both scenes of level 1 in previous_scene_ids and
   with or without a decision of its own. *)
InitConnect ==
    \E nTargets \in 1..MaxTargets :
    \E nDecisions \in [{0, 1} -> 0..MaxConnected] :
    \E previous \in [0..(nTargets - 1) ->
                        {<<<<1, 0>>>>, <<<<1, 1>>>>, <<<<1, 0>>, <<1, 1>>>>}] :
    \E own \in [0..(nTargets - 1) -> {0, 1}] :
        LET intro == [NewScene(<<0, 0>>, "intro", 0, "n", BuildDecisions(<<0, 0>>, 2),
                               FALSE, NoEnding, <<>>)
                        EXCEPT !.decisions[1].leads_to = <<1, 0>>,
                               !.decisions[2].leads_to = <<1, 1>>]
            Source(i) == NewScene(<<1, i>>, "branch", 1, "n",
                                  BuildDecisions(<<1, i>>, nDecisions[i]), FALSE,
                                  NoEnding, <<<<0, 0>>>>)
            Target(i) == NewScene(<<2, i>>, "branch", 2, "n",
                                  BuildDecisions(<<2, i>>, own[i]), FALSE, NoEnding,
                                  previous[i])
            ids == {<<0, 0>>, <<1, 0>>, <<1, 1>>} \cup {<<2, i>> : i \in 0..(nTargets - 1)}
        IN  /\ diamond_config = ConnectConfig
            /\ mode = "draft"
            /\ llm = AsAsked(ConnectConfig)
            /\ pc = "connect"
            /\ diamondShape = calculateDiamondShape(ConnectConfig)
            /\ level = 2
            /\ index = 0
            /\ incoming = <<>>
            /\ attempts = 0
            /\ additionalConstraints = "none"
            /\ draft = NoDraft
            /\ scenes = [id \in ids |->
                            IF id[1] = 0 THEN intro
                            ELSE IF id[1] = 1 THEN Source(id[2])
                            ELSE Target(id[2])]
            /\ scenes_by_level = << <<<<0, 0>>>>, <<<<1, 0>>, <<1, 1>>>>,
                                    [i \in 1..nTargets |-> <<2, i - 1>>], <<>> >>
            /\ scenes_generated = 3 + nTargets
            /\ genCalls = 0
            /\ criticCalls = 0
            /\ trace = NoTrace
            /\ job = QueuedJob
            /\ db = NoRows
            /\ thrown = "none"
            /\ NotPlayed

NextConnect == ConnectCall

SpecConnect == InitConnect /\ [][NextConnect]_vars

-----------------------------------------------------------------------------
(* Properties *)

LastLevelIds == LevelIds(scenes_by_level, diamond_config.max_levels - 1)

Validated(scn) == validatePaths(scn, scenes_by_level, diamond_config)

(* the scenes reached from the scenes of from by following one decision *)
StepFrom(scn, from) ==
    {t \in DOMAIN scn :
        \E id \in from \cap DOMAIN scn :
            \E i \in 1..Len(scn[id].decisions) : scn[id].decisions[i].leads_to = t}

(* the scenes reached from the scenes of from by following exactly k decisions *)
RECURSIVE StepsFrom(_, _, _)
StepsFrom(scn, from, k) ==
    IF k = 0 THEN from ELSE StepsFrom(scn, StepFrom(scn, from), k - 1)

(* the scenes reached from the scenes of from by following any number of decisions *)
RECURSIVE Reachable(_, _)
Reachable(scn, from) ==
    LET more == from \cup StepFrom(scn, from)
    IN  IF more = from THEN from ELSE Reachable(scn, more)

Intro == generateCYOASceneId(0, 0)

NoDangling(scn) ==
    \A id \in DOMAIN scn :
        \A i \in 1..Len(scn[id].decisions) :
            /\ scn[id].decisions[i].leads_to # <<>>
            /\ scn[id].decisions[i].leads_to \in DOMAIN scn

EndingsWellFormed(scn) ==
    \A id \in DOMAIN scn :
        IF id \in Range(LastLevelIds)
        THEN scn[id].is_ending /\ scn[id].decisions = <<>>
        ELSE ~scn[id].is_ending

(* C1: after run() returns, every decision of every scene has a non-empty
   leads_to that is a key of state.scenes. *)
C1_NoDanglingReferences == pc = "done" => NoDangling(scenes)

(* a completed run in which one scene's decisions lead to different scenes *)
C1_Witness ==
    /\ pc = "done"
    /\ \E id \in DOMAIN scenes :
          /\ Len(scenes[id].decisions) >= 2
          /\ scenes[id].decisions[1].leads_to # scenes[id].decisions[2].leads_to

(* C2: after run() returns, every scene of the last level has is_ending = TRUE
   and no decisions, also when the generator returned choices for it, and every
   scene of another level has is_ending = FALSE.  Stated of the state run()
   returns and, in the state in which run() is about to validate, of what
   validatePaths makes of it. *)
C2_EndingsWellFormed ==
    /\ pc = "done" => EndingsWellFormed(scenes)
    /\ pc = "validate" => EndingsWellFormed(Validated(scenes))

(* validatePaths is given an ending for which the generator returned choices *)
C2_Witness ==
    /\ pc = "validate"
    /\ \E id \in Range(LastLevelIds) : Len(scenes[id].decisions) > 0

(* C3 as claimed: in a completed run of the quick preset every ending is
   reached from scene_L0_0 by following leads_to links. *)
C3_EndingsReachable ==
    (pc = "done" /\ diamond_config = STORY_PRESETS.quick)
        => Range(LastLevelIds) \subseteq Reachable(scenes, {Intro})

(* C4 as claimed: after run() returns, every scene with is_ending = FALSE has
   at least one decision. *)
C4_NoDeadEnd ==
    pc = "done" =>
        \A id \in DOMAIN scenes :
            ~scenes[id].is_ending => Len(scenes[id].decisions) >= 1

(* C5: after run() returns, level l holds calculateDiamondShape(config)[l]
   scene ids, they are scene_L{l}_{0..count-1} in order, every id is a key of
   the scene map and the scene stored under it carries it, and
   |scenes| = scenes_generated = the sum of the shape. *)
C5_SceneCounts ==
    pc = "done" =>
        LET shape == calculateDiamondShape(diamond_config)
        IN  /\ Len(scenes_by_level) = diamond_config.max_levels
            /\ \A l \in 0..(diamond_config.max_levels - 1) :
                  /\ Len(scenes_by_level[l + 1]) = shape[l + 1]
                  /\ \A i \in 1..Len(scenes_by_level[l + 1]) :
                        scenes_by_level[l + 1][i] = generateCYOASceneId(l, i - 1)
            /\ Len(scenes_by_level[1]) = 1
            /\ DOMAIN scenes = UNION {Range(scenes_by_level[l]) :
                                        l \in 1..Len(scenes_by_level)}
            /\ \A id \in DOMAIN scenes : scenes[id].id = id
            /\ Cardinality(DOMAIN scenes) = scenes_generated
            /\ scenes_generated = SumSeq(shape)

(* a completed run of the deepest and widest diamond *)
C5_Witness ==
    /\ pc = "done"
    /\ diamond_config.max_levels = MaxLevels
    /\ diamond_config.max_width = MaxWidth
    /\ scenes_generated > MaxLevels

(* C6: after run() returns, every decision of a scene at level l leads to a
   scene at level l + 1; hence the scenes reached from the intro by k decisions
   are at level k, no path has more than max_levels - 1 decisions (the graph is
   acyclic) and an ending is reached by exactly max_levels - 1 decisions. *)
C6_Layered ==
    pc = "done" =>
        /\ \A id \in DOMAIN scenes :
              \A i \in 1..Len(scenes[id].decisions) :
                  /\ scenes[id].decisions[i].leads_to \in DOMAIN scenes
                  /\ scenes[scenes[id].decisions[i].leads_to].level
                        = scenes[id].level + 1
        /\ \A k \in 0..(diamond_config.max_levels - 1) :
              \A id \in StepsFrom(scenes, {Intro}, k) : scenes[id].level = k
        /\ StepsFrom(scenes, {Intro}, diamond_config.max_levels) = {}
        /\ \A id \in DOMAIN scenes : id \notin Reachable(scenes, StepFrom(scenes, {id}))

(* a completed run with an ending reached from the intro *)
C6_Witness ==
    /\ pc = "done"
    /\ StepsFrom(scenes, {Intro}, diamond_config.max_levels - 1) # {}
    /\ \E id \in DOMAIN scenes : scenes[id].level = 1 /\ Len(scenes[id].decisions) > 0

(* the ending and leads_to invariants of a scene map *)
ValidState(scn) ==
    /\ \A id \in Range(LastLevelIds) \cap DOMAIN scn :
          scn[id].is_ending /\ scn[id].decisions = <<>>
    /\ NoDangling(scn)

(* C7: for every valid DiamondConfig, calculateDiamondShape(config) has length
   max_levels and its first element is 1. *)
C7_ShapeLengthAndIntro ==
    pc = "shaped" =>
        /\ diamond_config \in DiamondConfigSchema
        /\ Len(diamondShape) = diamond_config.max_levels
        /\ diamondShape[1] = 1

(* the shape of a config with the most levels has been computed *)
C7_Witness ==
    /\ pc = "shaped"
    /\ diamond_config.max_levels = MaxLevels
    /\ Len(diamondShape) = MaxLevels

(* C8: for every valid DiamondConfig the last element of the shape is
   ceil((min_endings + max_endings) / 2), and the divisor of the contracting
   phase, max_levels - 1 - floor(max_levels / 2), is not 0. *)
C8_LastLevelIsEndings ==
    pc = "shaped" =>
        /\ Len(diamondShape) >= 1
        /\ 2 * diamondShape[Len(diamondShape)]
              \in {diamond_config.min_endings + diamond_config.max_endings,
                   diamond_config.min_endings + diamond_config.max_endings + 1}
        /\ diamond_config.max_levels - 1 - (diamond_config.max_levels \div 2) # 0

(* the shape of a config whose contracting formula would give the last level
   another width than the endings formula has been computed *)
C8_Witness ==
    /\ pc = "shaped"
    /\ diamond_config.max_levels = 5
    /\ diamond_config.min_endings = 2
    /\ diamond_config.max_endings = 8
    /\ diamondShape[Len(diamondShape)] = 5

(* C9: validatePaths changes nothing in a state it has produced, nor in a
   state that satisfies the ending and leads_to invariants.  Stated of the
   state validatePaths is applied to in a run and of the state it leaves. *)
C9_ValidateIdempotent ==
    pc \in {"validate", "done"} =>
        /\ Validated(Validated(scenes)) = Validated(scenes)
        /\ ValidState(scenes) => Validated(scenes) = scenes
        /\ ValidState(Validated(scenes))

(* validatePaths is applied to a state that it changes *)
C9_Witness ==
    /\ pc = "validate"
    /\ Validated(scenes) # scenes

(* generation calls a run may make: one for the world rules and
   MAX_SCENE_REGENERATIONS = 3 for each scene of the shape *)
CallBudget == 1 + 3 * SumSeq(calculateDiamondShape(diamond_config))

(* what is left to do of a run: 8 for each scene still to be returned and,
   within the scene in work, less with every call of a collaborator *)
Variant ==
    LET left == SumSeq(calculateDiamondShape(diamond_config)) - scenes_generated
    IN  CASE pc = "start" -> 8 * left + 11
          [] pc = "scene" -> 8 * left + 10
          [] pc = "generate" -> 8 * left + 9 - 2 * attempts
          [] pc = "evaluate" -> 8 * left + 10 - 2 * attempts
          [] pc = "validate" -> 1
          [] OTHER -> 0

(* C10: generateScene makes at most 3 generation calls and at most 3 editor
   calls for one scene, whatever the collaborators answer, and then returns a
   scene; a run makes at most 1 + 3 * sum(shape) generation calls and
   completes: every step brings it nearer to completion, and it is never
   stuck before it. *)
C10_AttemptBudget ==
    /\ [](/\ attempts <= 3
          /\ criticCalls <= 3
          /\ criticCalls <= attempts
          /\ genCalls <= CallBudget
          /\ Variant >= 0
          /\ pc # "done" => ENABLED Next)
    /\ [][Variant' < Variant]_vars

(* a completed run that has used its whole budget of generation calls *)
C10_Witness ==
    /\ pc = "done"
    /\ llm.metered
    /\ genCalls = CallBudget

-----------------------------------------------------------------------------
(* Properties of generateScene, stated of the trace of its calls *)

(* generateScene has returned the scene of the trace and nothing but
   connectDecisions has touched it since *)
SceneJustReturned == trace.returned /\ pc \in {"scene", "validate"}

TracedScene == scenes[trace.scene]

TracedIsEnding == trace.scene[1] = diamond_config.max_levels - 1

TracedType == SceneTypeOf(trace.scene[1], TracedIsEnding)

(* the decisions of a scene are the choices of a draft: connectDecisions
   changes leads_to only *)
SameChoices(decisions, choices) ==
    /\ Len(decisions) = Len(choices)
    /\ \A i \in 1..Len(choices) :
          /\ decisions[i].id = choices[i].id
          /\ decisions[i].choice_order = choices[i].choice_order

NoAccept(evals) == \A i \in 1..Len(evals) : evals[i].decision # "ACCEPT"

(* C11: when the editor was called for a scene and never answered ACCEPT,
   generateScene has made 3 generation calls and has returned a scene whose
   content is the narrative of the third draft and whose decisions are the
   third draft's choices; the content is not the empty placeholder, and no
   error has left run(). *)
C11_ExhaustionFallback ==
    (SceneJustReturned /\ Len(trace.evals) >= 1 /\ NoAccept(trace.evals)) =>
        /\ Len(trace.gens) = 3
        /\ trace.evals[Len(trace.evals)].attempt = 3
        /\ TracedScene.content = trace.gens[3].narrative
        /\ TracedScene.content # ""
        /\ SameChoices(TracedScene.decisions, trace.gens[3].decisions)
        /\ thrown = "none"

(* a scene returned after REWRITE, REGENERATE and REWRITE or REGENERATE, whose
   third draft differs from the first two in narrative and from the second in
   the number of choices *)
C11_Witness ==
    /\ SceneJustReturned
    /\ Len(trace.evals) = 3
    /\ trace.evals[1].decision = "REWRITE"
    /\ trace.evals[2].decision = "REGENERATE"
    /\ trace.evals[3].decision # "ACCEPT"
    /\ trace.gens[3].narrative # trace.gens[2].narrative
    /\ trace.gens[3].narrative # trace.gens[1].narrative
    /\ Len(trace.gens[3].decisions) # Len(trace.gens[2].decisions)
    /\ TracedScene.content = trace.gens[3].narrative

CorrectiveLine == "The decisions array was empty in your previous response."

(* attempts 1..k-1 of the traced scene returned no choices and attempt k some *)
FirstChoicesAt(k) ==
    /\ k \in 1..Len(trace.gens)
    /\ \A j \in 1..(k - 1) : trace.gens[j].decisions = <<>>
    /\ trace.gens[k].decisions # <<>>

(* C12: for a non-ending scene whose generation attempts 1..k-1 returned an
   empty choice list and whose attempt k (k <= 3) returned a non-empty one:
   the editor was not called for attempts 1..k-1, the prompt of the first
   attempt has no feedback and the prompt of each of the attempts 2..k contains
   the corrective line, and if the scene is not reviewed or the editor accepts
   attempt k, generateScene returns at attempt k a scene with the choices of
   attempt k. *)
C12_EmptyDecisionsRetry ==
    (trace.scene # <<>> /\ ~TracedIsEnding) =>
        \A k \in 1..Len(trace.gens) :
            FirstChoicesAt(k) =>
                /\ k <= 3
                /\ \A i \in 1..Len(trace.evals) : trace.evals[i].attempt >= k
                /\ trace.gens[1].prompt.feedback = <<>>
                /\ \A j \in 2..k : CorrectiveLine \in Range(trace.gens[j].prompt.feedback)
                /\ (/\ SceneJustReturned
                    /\ \/ ~(mode = "polished" \/ TracedType = "intro")
                       \/ \E i \in 1..Len(trace.evals) :
                             /\ trace.evals[i].attempt = k
                             /\ trace.evals[i].decision = "ACCEPT")
                   => /\ Len(trace.gens) = k
                      /\ SameChoices(TracedScene.decisions, trace.gens[k].decisions)

(* a branch scene returned at attempt 3 with the choices of attempt 3, after
   two attempts without choices *)
C12_Witness ==
    /\ SceneJustReturned
    /\ TracedType = "branch"
    /\ FirstChoicesAt(3)
    /\ Len(trace.gens) = 3
    /\ Len(TracedScene.decisions) = MaxChoices
    /\ CorrectiveLine \in Range(trace.gens[3].prompt.feedback)

(* C13: when the editor answers ACCEPT on attempt k, after any verdicts on
   earlier attempts, generateScene returns at attempt k (k in 1..3) a scene
   whose content is that evaluation's edited_content if it is not empty and
   otherwise the narrative of draft k, and whose decisions are draft k's
   choices. *)
C13_AcceptedContent ==
    (/\ SceneJustReturned
     /\ Len(trace.evals) >= 1
     /\ trace.evals[Len(trace.evals)].decision = "ACCEPT") =>
        LET evaluation == trace.evals[Len(trace.evals)]
            k == evaluation.attempt
        IN  /\ k \in 1..3
            /\ k = Len(trace.gens)
            /\ NoAccept(SubSeq(trace.evals, 1, Len(trace.evals) - 1))
            /\ TracedScene.content = IF evaluation.edited_content # ""
                                      THEN evaluation.edited_content
                                      ELSE trace.gens[k].narrative
            /\ SameChoices(TracedScene.decisions, trace.gens[k].decisions)

(* the editor answered REGENERATE, REGENERATE, ACCEPT and the scene has the
   edited content of the third evaluation *)
C13_Witness ==
    /\ SceneJustReturned
    /\ Len(trace.evals) = 3
    /\ trace.evals[1].decision = "REGENERATE"
    /\ trace.evals[2].decision = "REGENERATE"
    /\ trace.evals[3].decision = "ACCEPT"
    /\ trace.evals[3].edited_content = "e"
    /\ trace.evals[2].edited_content = ""
    /\ TracedScene.content = "e"

-----------------------------------------------------------------------------
(* Properties of processStoryJob *)

(* C14: when a call of the generation collaborator (the world rules or an
   attempt of a scene) or of the editor throws, the error leaves run(): no
   further call is made and no scene is added, the only step left is the
   catch of processStoryJob, which marks the job failed; no Story, Scene or
   Decision row exists then or later, and the job has no story. *)
C14_CollaboratorFailure ==
    /\ [](thrown \in {"generation", "critic"} =>
            /\ pc \in {"thrown", "failed"}
            /\ db = NoRows
            /\ job.storyId = ""
            /\ pc = "thrown" => ENABLED MarkFailed
            /\ pc = "failed" => (job.status = "failed" /\ job.error = thrown))
    /\ [][(thrown \in {"generation", "critic"}) =>
            (/\ pc = "thrown"
             /\ pc' = "failed"
             /\ job'.status = "failed"
             /\ UNCHANGED <<scenes, scenes_by_level, scenes_generated, attempts,
                            genCalls, criticCalls, db, thrown>>)]_vars

(* a job failed by the editor throwing after scenes had been generated *)
C14_Witness ==
    /\ pc = "failed"
    /\ thrown = "critic"
    /\ scenes_generated >= 2
    /\ job.status = "failed"
    /\ db = NoRows

(* C15 as claimed: a progress callback whose promise rejects or never
   settles neither aborts nor blocks the run. *)
C15_ProgressFireAndContinue ==
    /\ thrown # "progress"
    /\ pc # "blocked"

-----------------------------------------------------------------------------
(* The schema bounds of scenes *)

(* C16 as claimed: in every state of a run every scene has at most 4
   decisions and the choice_order of every decision is between 1 and 4,
   whatever number of choices the generator returns. *)
C16_DecisionBounds ==
    \A id \in DOMAIN scenes :
        /\ Len(scenes[id].decisions) <= MaxDecisions
        /\ \A i \in 1..Len(scenes[id].decisions) :
              scenes[id].decisions[i].choice_order \in MinChoiceOrder..MaxChoiceOrder

-----------------------------------------------------------------------------
(* The shapes of the presets and of every valid config *)

(* C17 as claimed: the shape of the quick preset has 5 to 8 scenes and 2
   scenes at level 1, the shape of the standard preset 10 to 15 scenes and the
   shape of the epic preset 20 to 30 scenes. *)
C17_PresetSizes ==
    pc = "shaped" =>
        /\ diamond_config = STORY_PRESETS.quick =>
              (SumSeq(diamondShape) \in 5..8 /\ diamondShape[2] = 2)
        /\ diamond_config = STORY_PRESETS.standard => SumSeq(diamondShape) \in 10..15
        /\ diamond_config = STORY_PRESETS.epic => SumSeq(diamondShape) \in 20..30

(* C18 as claimed: for every valid config the counts do not decrease from
   level 0 to level mid = floor(max_levels / 2), the count at level mid is
   max_width, the counts do not increase from level mid to the last level, and
   no level has more than max_width scenes. *)
C18_DiamondShape ==
    pc = "shaped" =>
        LET mid == diamond_config.max_levels \div 2
            last == diamond_config.max_levels - 1
        IN  /\ \A l \in 0..(mid - 1) : diamondShape[l + 1] <= diamondShape[l + 2]
            /\ diamondShape[mid + 1] = diamond_config.max_width
            /\ \A l \in mid..(last - 1) : diamondShape[l + 1] >= diamondShape[l + 2]
            /\ \A l \in 0..last : diamondShape[l + 1] <= diamond_config.max_width

-----------------------------------------------------------------------------
(* The order of the calls and of the levels *)

(* C19: the editor is called for the reviewed scenes and for no other: in
   draft mode for the intro and for endings and never for a branch scene, in
   polished mode for scenes of every type, at most once for each generation
   attempt; a scene that is not reviewed is returned, without a call of the
   editor, on the first attempt with a non-empty choice list or on attempt 3,
   with the narrative and the choices of that attempt. *)
C19_CriticOnlyForReviewed ==
    trace.scene # <<>> =>
        LET reviewed == mode = "polished" \/ TracedType \in {"intro", "ending"}
            k == Len(trace.gens)
        IN  /\ Len(trace.evals) >= 1 => reviewed
            /\ (mode = "draft" /\ TracedType = "branch") => trace.evals = <<>>
            /\ (trace.returned /\ reviewed) => Len(trace.evals) >= 1
            /\ \A i \in 1..Len(trace.evals) :
                  /\ trace.evals[i].attempt \in 1..k
                  /\ \A j \in 1..(i - 1) : trace.evals[j].attempt < trace.evals[i].attempt
            /\ (SceneJustReturned /\ ~reviewed) =>
                  /\ k \in 1..3
                  /\ \A j \in 1..(k - 1) : trace.gens[j].decisions = <<>>
                  /\ trace.gens[k].decisions # <<>> \/ k = 3
                  /\ TracedScene.content = trace.gens[k].narrative
                  /\ SameChoices(TracedScene.decisions, trace.gens[k].decisions)

(* in draft mode a branch scene has been returned on its second attempt, the
   first with a non-empty choice list, without a call of the editor *)
C19_Witness ==
    /\ SceneJustReturned
    /\ mode = "draft"
    /\ TracedType = "branch"
    /\ FirstChoicesAt(2)
    /\ Len(trace.gens) = 2
    /\ trace.evals = <<>>
    /\ Len(TracedScene.decisions) >= 1

(* level lvl has all the scenes of the shape *)
LevelComplete(lvl) ==
    Len(scenes_by_level[lvl + 1]) = calculateDiamondShape(diamond_config)[lvl + 1]

(* every decision of the scenes of level lvl has been given a target *)
LevelConnected(lvl) ==
    \A id \in Range(scenes_by_level[lvl + 1]) :
        \A i \in 1..Len(scenes[id].decisions) : scenes[id].decisions[i].leads_to # <<>>

(* no decision of the scenes of level lvl has been given a target *)
LevelUnconnected(lvl) ==
    \A id \in Range(scenes_by_level[lvl + 1]) :
        \A i \in 1..Len(scenes[id].decisions) : scenes[id].decisions[i].leads_to = <<>>

(* C20: within a run the scenes of a level are generated and added in index
   order, a scene of level l+1 is generated only when level l is complete, the
   decisions of level l-1 are connected when the last scene of level l has been
   added and before the first scene of level l+1 is generated, and not earlier;
   validatePaths runs once, when all levels are complete, and nothing runs
   after it. *)
C20_LevelOrder ==
    /\ [](pc \notin {"start", "done"} =>
            /\ \A l \in 0..(diamond_config.max_levels - 1) :
                  /\ \A i \in 1..Len(scenes_by_level[l + 1]) :
                        scenes_by_level[l + 1][i] = generateCYOASceneId(l, i - 1)
                  /\ l < level => LevelComplete(l)
                  /\ l > level => scenes_by_level[l + 1] = <<>>
                  /\ l + 1 < level => LevelConnected(l)
                  /\ l + 1 >= level => LevelUnconnected(l)
            /\ pc \in {"scene", "generate", "evaluate"} =>
                  /\ level < diamond_config.max_levels
                  /\ Len(scenes_by_level[level + 1]) = index
                  /\ ~LevelComplete(level)
            /\ pc = "validate" => level = diamond_config.max_levels)
    /\ [][/\ pc = "validate" => pc' = "done"
          /\ pc # "done"
          /\ pc' = "validate" => pc \in {"generate", "evaluate"}]_vars

(* the second scene of level 2 is being generated: the decisions of level 0
   are connected, those of level 1 are not yet *)
C20_Witness ==
    /\ pc = "generate"
    /\ level = 2
    /\ index = 1
    /\ LevelConnected(0)
    /\ Len(scenes[generateCYOASceneId(0, 0)].decisions) >= 1
    /\ \E id \in Range(scenes_by_level[2]) :
          /\ Len(scenes[id].decisions) >= 1
          /\ scenes[id].decisions[1].leads_to = <<>>

-----------------------------------------------------------------------------
(* Properties of connectDecisions *)

(* the scenes of level lvl that have sourceId in previous_scene_ids, in the
   order of the level *)
LeadingTo(scn, sourceId, lvl) ==
    LET Has(targetId) == sourceId \in Range(scn[targetId].previous_scene_ids)
    IN  SelectSeq(scenes_by_level[lvl + 1], Has)

(* C21: after connectDecisions(state, l), for every scene of level l-1 with
   at least one decision, decision number i (from 0) leads to
   leadingTo[i mod |leadingTo|], leadingTo being the scenes of level l, in the
   order of the level, whose previous_scene_ids contains the source; with an
   empty leadingTo every decision of the source leads to the first scene of
   level l. *)
C21_RoundRobin ==
    pc = "connected" =>
        \A sourceId \in Range(scenes_by_level[level]) :
            LET leadingTo == LeadingTo(scenes, sourceId, level)
                decisions == scenes[sourceId].decisions
            IN  \A i \in 0..(Len(decisions) - 1) :
                    decisions[i + 1].leads_to =
                        IF leadingTo # <<>>
                        THEN leadingTo[(i % Len(leadingTo)) + 1]
                        ELSE scenes_by_level[level + 1][1]

(* connectDecisions has given the three decisions of scene_L1_1 the two scenes
   that name it, the first of them twice, and, no scene naming scene_L1_0, the
   decision of scene_L1_0 the first scene of the level *)
C21_Witness ==
    /\ pc = "connected"
    /\ Len(scenes_by_level[3]) = 2
    /\ LeadingTo(scenes, <<1, 1>>, 2) = <<<<2, 0>>, <<2, 1>>>>
    /\ Len(scenes[<<1, 1>>].decisions) = 3
    /\ scenes[<<1, 1>>].decisions[1].leads_to = <<2, 0>>
    /\ scenes[<<1, 1>>].decisions[2].leads_to = <<2, 1>>
    /\ scenes[<<1, 1>>].decisions[3].leads_to = <<2, 0>>
    /\ LeadingTo(scenes, <<1, 0>>, 2) = <<>>
    /\ Len(scenes[<<1, 0>>].decisions) = 1
    /\ scenes[<<1, 0>>].decisions[1].leads_to = <<2, 0>>

(* what connectDecisions(state, l) leaves as it is, between the scene maps
   before and after *)
ConnectFrame(before, after, lvl) ==
    /\ DOMAIN after = DOMAIN before
    /\ \A id \in DOMAIN before :
          /\ after[id].id = before[id].id
          /\ after[id].content = before[id].content
          /\ after[id].scene_type = before[id].scene_type
          /\ after[id].level = before[id].level
          /\ after[id].is_ending = before[id].is_ending
          /\ after[id].previous_scene_ids = before[id].previous_scene_ids
          /\ Len(after[id].decisions) = Len(before[id].decisions)
          /\ \A i \in 1..Len(before[id].decisions) :
                /\ after[id].decisions[i].id = before[id].decisions[i].id
                /\ after[id].decisions[i].choice_order
                      = before[id].decisions[i].choice_order
                /\ before[id].level # lvl - 1 =>
                      after[id].decisions[i].leads_to = before[id].decisions[i].leads_to

(* C22: connectDecisions(state, l) changes nothing but the leads_to of the
   decisions of the scenes of level l-1: the set of scenes, scenes_by_level,
   the content, type, level, is_ending and previous_scene_ids of every scene,
   the number and order of its decisions, and the leads_to of the decisions
   of the other levels stay as they are. *)
C22_ConnectFrame ==
    [][pc = "connect" =>
          (/\ ConnectFrame(scenes, scenes', level)
           /\ scenes_by_level' = scenes_by_level
           /\ scenes_generated' = scenes_generated)]_vars

(* connectDecisions has connected a decision of level 1 and has left a
   decision of level 2 unconnected and the decisions of the intro as they
   were *)
C22_Witness ==
    /\ pc = "connected"
    /\ \E id \in Range(scenes_by_level[2]) :
          /\ Len(scenes[id].decisions) >= 1
          /\ scenes[id].decisions[1].leads_to # <<>>
    /\ \E id \in Range(scenes_by_level[3]) :
          /\ Len(scenes[id].decisions) >= 1
          /\ scenes[id].decisions[1].leads_to = <<>>
    /\ scenes[<<0, 0>>].decisions[2].leads_to = <<1, 1>>

-----------------------------------------------------------------------------
(* Properties of the links between adjacent levels *)

NoDuplicates(seq) == \A i, j \in 1..Len(seq) : seq[i] = seq[j] => i = j

(* C23: for every valid config, every scene of a level l > 0 has a
   previous_scene_ids that is not empty, has no duplicates and holds ids of
   scenes of level l-1 only; the scene of level 0 has an empty
   previous_scene_ids. *)
C23_PreviousSceneIds ==
    \A id \in DOMAIN scenes :
        LET previous == scenes[id].previous_scene_ids
        IN  IF scenes[id].level = 0
            THEN previous = <<>>
            ELSE /\ previous # <<>>
                 /\ NoDuplicates(previous)
                 /\ Range(previous) \subseteq Range(scenes_by_level[scenes[id].level])

(* a finished story of a config that is not one of SmallConfigs, with a scene
   that has two previous scenes in the expanding half and one in the
   contracting half *)
C23_Witness ==
    /\ pc = "done"
    /\ diamond_config.max_levels = 6
    /\ scenes[Intro].previous_scene_ids = <<>>
    /\ \E id \in DOMAIN scenes :
          /\ scenes[id].level <= 3
          /\ Len(scenes[id].previous_scene_ids) = 2
    /\ \E id \in DOMAIN scenes :
          /\ scenes[id].level > 3
          /\ Len(scenes[id].previous_scene_ids) >= 2

(* C24: the result of calculateIncomingScenes for the scene being generated.
   In the expanding half (level <= floor(max_levels / 2)) it holds
   prev[min(floor(index * prevCount / count), prevCount - 1)] and at most one
   further id, which can only be prev[max(0, primary - 1)]; in the contracting
   half it holds exactly the prev[p] with floor(index * prevCount / count) <= p
   <= min(prevCount - 1, floor((index + 1) * prevCount / count)). *)
C24_IncomingFormulas ==
    (pc \in {"generate", "evaluate"} /\ level > 0) =>
        LET prev == scenes_by_level[level]
            prevCount == Len(prev)
            count == diamondShape[level + 1]
            primary == (index * prevCount) \div count
            last == ((index + 1) * prevCount) \div count
            primaryId == prev[(IF primary < prevCount - 1 THEN primary ELSE prevCount - 1) + 1]
            secondaryId == prev[(IF primary - 1 > 0 THEN primary - 1 ELSE 0) + 1]
        IN  IF level <= diamond_config.max_levels \div 2
            THEN /\ primaryId \in Range(incoming)
                 /\ Range(incoming) \subseteq {primaryId, secondaryId}
                 /\ Len(incoming) <= 2
                 /\ Len(incoming) = Cardinality(Range(incoming))
            ELSE /\ Range(incoming) =
                      {prev[q + 1] : q \in primary..(IF last < prevCount - 1
                                                      THEN last ELSE prevCount - 1)}
                 /\ Len(incoming) = Cardinality(Range(incoming))

(* a scene of the contracting half is being generated with three scenes of the
   level before it as incoming scenes, in a story that has, in the expanding
   half, a scene with a secondary connection *)
C24_Witness ==
    /\ pc = "generate"
    /\ level > diamond_config.max_levels \div 2
    /\ Len(incoming) = 3
    /\ \E id \in DOMAIN scenes :
          /\ scenes[id].level <= diamond_config.max_levels \div 2
          /\ Len(scenes[id].previous_scene_ids) = 2

(* C26: for every valid config and every outcome of the random secondary
   connections, when level l is complete every scene of level l-1 is in the
   previous_scene_ids of at least one scene of level l: the leadingTo of
   connectDecisions is never empty, and no decision gets the fallback
   target. *)
C26_EverySourceLinked ==
    \A l \in 1..(level - 1) :
        \A sourceId \in Range(scenes_by_level[l]) :
            /\ \E targetId \in Range(scenes_by_level[l + 1]) :
                  sourceId \in Range(scenes[targetId].previous_scene_ids)
            /\ LeadingTo(scenes, sourceId, l) # <<>>

(* a finished story with a level that is narrower than the level before it,
   and in it a scene named by one scene of the next level only *)
C26_Witness ==
    /\ pc = "done"
    /\ \E l \in 1..(diamond_config.max_levels - 1) :
          /\ Len(scenes_by_level[l + 1]) < Len(scenes_by_level[l])
          /\ \E sourceId \in Range(scenes_by_level[l]) :
                Len(LeadingTo(scenes, sourceId, l)) = 1

-----------------------------------------------------------------------------
(* Properties of the planned endings *)

(* C25: the ending scene with index i has the quality and the summary of
   possible_endings[i mod n], n being the number of possible endings of the
   world rules; the length of the id list of the last level, from which
   generateScene takes the index, is i while the scene is generated; with
   n = 0 an ending has the quality 'neutral', and the run goes on. *)
C25_PlannedEndings ==
    LET n == Len(llm.possible_endings)
    IN  /\ \A id \in Range(LastLevelIds) :
              IF n = 0
              THEN scenes[id].ending_quality = "neutral"
              ELSE /\ scenes[id].ending_quality
                        = llm.possible_endings[(id[2] % n) + 1].quality
                   /\ scenes[id].ending_summary
                        = llm.possible_endings[(id[2] % n) + 1].summary
        /\ (pc \in {"generate", "evaluate"} /\ IsLastLevel) =>
              Len(scenes_by_level[level + 1]) = index
        /\ pc \notin {"thrown", "failed"}

(* a finished story whose third ending has the first of two planned endings *)
C25_Witness ==
    /\ pc = "done"
    /\ Len(llm.possible_endings) = 2
    /\ Len(LastLevelIds) >= 3
    /\ scenes[LastLevelIds[3]].ending_summary = "first"
    /\ scenes[LastLevelIds[2]].ending_summary = "second"

(* a finished story of world rules without possible endings: every ending is
   'neutral' *)
C25_WitnessNoPlan ==
    /\ pc = "done"
    /\ Len(llm.possible_endings) = 0
    /\ Len(LastLevelIds) >= 3
    /\ \A id \in Range(LastLevelIds) : scenes[id].ending_quality = "neutral"

-----------------------------------------------------------------------------
(* Properties of the finished graph *)

(* every scene that is no ending has decisions_per_scene decisions *)
FullyDecided ==
    \A id \in DOMAIN scenes :
        ~scenes[id].is_ending =>
            Len(scenes[id].decisions) = diamond_config.decisions_per_scene

(* C27 as claimed: after run() for a preset, every scene that is no ending
   having exactly decisions_per_scene decisions, every generated scene is
   reached from scene_L0_0 by following leads_to links. *)
C27_AllReachable ==
    (pc = "done" /\ FullyDecided) => DOMAIN scenes \subseteq Reachable(scenes, {Intro})

(* the finished quick story, the intro with its two decisions, which lead to
   scene_L1_0 and scene_L1_1: scene_L1_2 is not reached *)
C27_UnreachedScene ==
    /\ pc = "done"
    /\ diamond_config = STORY_PRESETS.quick
    /\ FullyDecided
    /\ Len(scenes[Intro].decisions) = 2
    /\ scenes[Intro].decisions[1].leads_to = <<1, 0>>
    /\ scenes[Intro].decisions[2].leads_to = <<1, 1>>
    /\ <<1, 2>> \in DOMAIN scenes
    /\ <<1, 2>> \notin Reachable(scenes, {Intro})

-----------------------------------------------------------------------------
(* The job as a reader of the API sees it *)

(* C28 as claimed: in every state a reader can observe while the worker
   processes a job, the status 'succeeded' implies that the job has its
   storyId and that the story, all its scenes and all their decisions are
   saved; a job that is 'succeeded' never becomes 'failed'. *)
C28_SucceededMeansSaved ==
    /\ [](job.status = "succeeded" =>
            /\ job.storyId # ""
            /\ db = SavedRows(scenes))
    /\ [][job.status = "succeeded" => job'.status # "failed"]_vars

(* run() has returned, its last progress update has made the job 'succeeded',
   and nothing is saved yet *)
C28_SucceededUnsaved ==
    /\ pc = "done"
    /\ job.status = "succeeded"
    /\ job.storyId = ""
    /\ db = NoRows

(* the job, 'succeeded' since the last progress update, has been marked failed
   after a create of the save threw *)
C28_SucceededThenFailed ==
    /\ pc = "failed"
    /\ thrown = "save"
    /\ job.status = "failed"
    /\ job.progress = 100

-----------------------------------------------------------------------------
(* Properties of the play routes *)

(* pathTaken and decisionsMade of a Playthrough row are a walk of the story
   from its intro to the current scene *)
ValidWalk(row) ==
    /\ Len(row.pathTaken) >= 1
    /\ row.pathTaken[1] = Intro
    /\ row.currentSceneId = row.pathTaken[Len(row.pathTaken)]
    /\ Len(row.decisionsMade) = Len(row.pathTaken) - 1
    /\ \A k \in 1..Len(row.decisionsMade) :
          \E i \in 1..Len(scenes[row.pathTaken[k]].decisions) :
              /\ scenes[row.pathTaken[k]].decisions[i].id = row.decisionsMade[k]
              /\ scenes[row.pathTaken[k]].decisions[i].leads_to = row.pathTaken[k + 1]

(* C29: with the play and decide requests handled one after another, every
   playthrough is a walk of the story: pathTaken starts at the intro,
   currentSceneId is its last element, decisionsMade has one element less,
   and decisionsMade[k] is a decision of pathTaken[k] that leads to
   pathTaken[k+1]; a request that is rejected leaves the playthroughs and
   timesChosen as they are. *)
C29_ValidWalk ==
    /\ [](\A p \in 1..Len(playthroughs) : ValidWalk(playthroughs[p]))
    /\ [][(response'.status \notin {200, 201}) =>
            UNCHANGED <<playthroughs, timesChosen>>]_vars

(* a playthrough has reached an ending over two decisions, each chosen once,
   and the last request, a decide of the other playthrough with a decision of
   a scene it is not at, was rejected *)
C29_Witness ==
    /\ Len(playthroughs) = 2
    /\ Len(playthroughs[1].pathTaken) = 3
    /\ playthroughs[1].endingSceneId = playthroughs[1].currentSceneId
    /\ \A k \in 1..2 : TimesChosen(timesChosen, playthroughs[1].decisionsMade[k]) = 1
    /\ Len(playthroughs[2].pathTaken) = 2
    /\ response = [status |-> 400, error |-> "Invalid decision for current scene"]

(* a decide request in work for playthrough p is answered in this step *)
Answered(p) ==
    \E request \in BagToSet(deciding) :
        /\ request.playthroughId = p
        /\ deciding' = deciding (-) SetToBag({request})

(* C30 as claimed: a playthrough is completed exactly when its current scene
   is an ending, and a completed playthrough is not changed by a decide
   request, one in work while the completing request is handled included:
   its row stays as it is and timesChosen is not incremented. *)
C30_CompletedImmutable ==
    /\ [](\A p \in 1..Len(playthroughs) :
            (playthroughs[p].completedAt # 0)
                <=> scenes[playthroughs[p].currentSceneId].is_ending)
    /\ [][\A p \in 1..Len(playthroughs) :
            (playthroughs[p].completedAt # 0) =>
                /\ playthroughs'[p] = playthroughs[p]
                /\ Answered(p) => timesChosen' = timesChosen]_vars

(* the only playthrough, completed, whose row a second decide request has
   written: two decisions of the scene before its ending have been chosen *)
C30_TwoEndings ==
    \E p \in 1..Len(playthroughs) :
        /\ Len(playthroughs) = 1
        /\ playthroughs[p].completedAt # 0
        /\ scenes[playthroughs[p].currentSceneId].is_ending
        /\ Len(playthroughs[p].pathTaken) = 3
        /\ \E d \in DOMAIN timesChosen :
              /\ d \notin Range(playthroughs[p].decisionsMade)
              /\ DecisionRow(scenes, d).sceneId = playthroughs[p].pathTaken[2]

(* a completed playthrough that a decide request read at the intro has set
   back to a scene that is no ending *)
C30_CompletedNotAtEnding ==
    \E p \in 1..Len(playthroughs) :
        /\ playthroughs[p].completedAt # 0
        /\ ~scenes[playthroughs[p].currentSceneId].is_ending

====
